---- MODULE Spec2Model ----
(***************************************************************************)
(* EcoString (src/src/string.rs): a string that keeps up to LIMIT bytes    *)
(* inline and otherwise lives in a reference-counted, clone-on-write       *)
(* EcoVec<u8>.  The model keeps a small number of EcoString variables      *)
(* ("slots"), the heap of shared buffers behind the EcoVecs, and applies   *)
(* the public operations of EcoString to them.                             *)
(*                                                                         *)
(* Bytes are numbers 0..255, characters are Unicode scalar values, and     *)
(* UTF-8 encoding / decoding is computed, not assumed.                     *)
(***************************************************************************)
EXTENDS Integers, Sequences, FiniteSets, TLC

(***************************************************************************)
(* Program constant and bounds of the model.                               *)
(***************************************************************************)
\* pub(crate) const LIMIT: usize = 14;
LIMIT == 14

\* Number of EcoString variables that are alive at the same time.
NumSlots == 2

\* Number of operations in one run.
MaxOps == 3

\* Longest string, in bytes, a call may produce.
MaxLen == 32

\* Width of usize in bits (Rust guarantees at least 16).
UsizeBits == 16

UsizeMax == (2 ^ UsizeBits) - 1

Slots == 1..NumSlots

BufIds == 1..(NumSlots + 2)

Min(a, b) == IF a <= b THEN a ELSE b

Max(a, b) == IF a >= b THEN a ELSE b

(***************************************************************************)
(* Characters and texts the operations are applied with.                   *)
(***************************************************************************)
\* 'a', Greek capital sigma (2 bytes), euro sign (3 bytes), seedling
\* (4 bytes).
PushChars == {97, 931, 8364, 127793}

\* Arguments of from(&str) and push_str(&str), as sequences of characters.
Texts ==
  << <<>>,
     <<97, 98>>,
     <<87, 101, 108, 99, 111, 109, 101>>,
     <<32, 116, 111, 32, 101, 97, 114, 116, 104, 33, 32>>,
     <<115, 116, 114, 97, 223, 101>>,
     <<72, 101, 108, 108, 111, 44, 32, 87, 111, 114, 108, 100, 33, 33>>,
     <<72, 101, 108, 108, 111, 44, 32, 87, 111, 114, 108, 100, 33, 33, 33>> >>

FromTexts == {1, 2, 3, 5, 6, 7}

PushTexts == {1, 2, 4}

Capacities == {LIMIT, LIMIT + 1, 20}

RepeatCounts == {0, 2, 3}

NoChar == -1

(***************************************************************************)
(* UTF-8 (core::char::encode_utf8, core::str::Chars).                      *)
(***************************************************************************)
\* char::len_utf8
LenUtf8(c) ==
  IF c < 128 THEN 1 ELSE IF c < 2048 THEN 2 ELSE IF c < 65536 THEN 3 ELSE 4

\* char::encode_utf8
EncodeUtf8(c) ==
  IF c < 128 THEN <<c>>
  ELSE IF c < 2048 THEN <<192 + (c \div 64), 128 + (c % 64)>>
  ELSE IF c < 65536
    THEN <<224 + (c \div 4096), 128 + ((c \div 64) % 64), 128 + (c % 64)>>
  ELSE <<240 + (c \div 262144), 128 + ((c \div 4096) % 64),
         128 + ((c \div 64) % 64), 128 + (c % 64)>>

\* str::as_bytes of a text given as characters
RECURSIVE StrBytes(_)
StrBytes(chars) ==
  IF chars = <<>> THEN <<>>
  ELSE EncodeUtf8(Head(chars)) \o StrBytes(Tail(chars))

IsContByte(b) == b >= 128 /\ b < 192

\* Byte length of the encoded character that starts with lead byte b
\* (0 when b cannot start a character).
LeadWidth(b) ==
  IF b < 128 THEN 1
  ELSE IF b >= 194 /\ b < 224 THEN 2
  ELSE IF b >= 224 /\ b < 240 THEN 3
  ELSE IF b >= 240 /\ b < 245 THEN 4
  ELSE 0

\* The character encoded by the w bytes of s that start at index i.
DecodeAt(s, i, w) ==
  IF w = 1 THEN s[i]
  ELSE IF w = 2 THEN (s[i] % 32) * 64 + (s[i + 1] % 64)
  ELSE IF w = 3
    THEN (s[i] % 16) * 4096 + (s[i + 1] % 64) * 64 + (s[i + 2] % 64)
  ELSE (s[i] % 8) * 262144 + (s[i + 1] % 64) * 4096
       + (s[i + 2] % 64) * 64 + (s[i + 3] % 64)

\* Whether the w bytes of s from index i are one well-formed character.
WellFormedAt(s, i, w) ==
  /\ w >= 1
  /\ i + w - 1 <= Len(s)
  /\ \A k \in 1..(w - 1) : IsContByte(s[i + k])
  /\ LET c == DecodeAt(s, i, w)
     IN /\ LenUtf8(c) = w
        /\ c <= 1114111
        /\ ~(c >= 55296 /\ c <= 57343)

\* core::str::from_utf8 succeeds on s[i..]
RECURSIVE ValidFrom(_, _)
ValidFrom(s, i) ==
  IF i > Len(s) THEN TRUE
  ELSE LET w == LeadWidth(s[i])
       IN WellFormedAt(s, i, w) /\ ValidFrom(s, i + w)

IsValidUtf8(s) == ValidFrom(s, 1)

\* str::chars: the characters of a valid byte string, front to back.
RECURSIVE CharsFrom(_, _)
CharsFrom(s, i) ==
  IF i > Len(s) THEN <<>>
  ELSE LET w == Max(LeadWidth(s[i]), 1)
       IN IF i + w - 1 > Len(s) THEN <<>>
          ELSE <<DecodeAt(s, i, w)>> \o CharsFrom(s, i + w)

Chars(s) == CharsFrom(s, 1)

\* str::chars().rev().next(): walks back over continuation bytes from the
\* end and decodes the last character; NoChar on an empty string.  (The
\* tests of n only keep the indices inside s when s is not valid UTF-8.)
LastChar(s) ==
  LET n == Len(s)
  IN IF n = 0 THEN NoChar
     ELSE IF s[n] < 128 \/ n < 2 THEN s[n]
     ELSE IF ~IsContByte(s[n - 1]) \/ n < 3
       THEN (s[n - 1] % 32) * 64 + (s[n] % 64)
     ELSE IF ~IsContByte(s[n - 2]) \/ n < 4
       THEN (s[n - 2] % 16) * 4096 + (s[n - 1] % 64) * 64 + (s[n] % 64)
     ELSE (s[n - 3] % 8) * 262144 + (s[n - 2] % 64) * 4096
          + (s[n - 1] % 64) * 64 + (s[n] % 64)

\* str::is_ascii
IsAscii(s) == \A i \in 1..Len(s) : s[i] < 128

(***************************************************************************)
(* Unicode case mapping of the standard library, on the characters that    *)
(* occur: ASCII letters, sharp s, the sigmas; every other character that   *)
(* occurs (digits, punctuation, euro sign, seedling) has no case.          *)
(***************************************************************************)
\* char::to_lowercase: the characters c lowercases to.
CharToLowercase(c) ==
  IF c >= 65 /\ c <= 90 THEN <<c + 32>>
  ELSE IF c = 931 THEN <<963>>
  ELSE <<c>>

\* char::to_uppercase: the characters c uppercases to (sharp s gives "SS").
CharToUppercase(c) ==
  IF c >= 97 /\ c <= 122 THEN <<c - 32>>
  ELSE IF c = 223 THEN <<83, 83>>
  ELSE IF c = 963 \/ c = 962 THEN <<931>>
  ELSE <<c>>

\* Whether c is a cased letter.
IsCased(c) ==
  \/ c >= 65 /\ c <= 90
  \/ c >= 97 /\ c <= 122
  \/ c \in {223, 931, 962, 963}

\* str::to_lowercase: as char::to_lowercase, except that a capital sigma
\* that ends a word (a cased letter before it, none after it) becomes the
\* final sigma.  None of the characters that occur is case-ignorable.
RECURSIVE StrToLowercaseFrom(_, _)
StrToLowercaseFrom(chars, i) ==
  IF i > Len(chars) THEN <<>>
  ELSE LET c == chars[i]
           final == /\ c = 931
                    /\ i > 1
                    /\ IsCased(chars[i - 1])
                    /\ ~(i < Len(chars) /\ IsCased(chars[i + 1]))
       IN (IF final THEN <<962>> ELSE CharToLowercase(c))
          \o StrToLowercaseFrom(chars, i + 1)

StrToLowercase(chars) == StrToLowercaseFrom(chars, 1)

\* str::to_uppercase
RECURSIVE StrToUppercase(_)
StrToUppercase(chars) ==
  IF chars = <<>> THEN <<>>
  ELSE CharToUppercase(Head(chars)) \o StrToUppercase(Tail(chars))

\* <[u8]>::make_ascii_lowercase / make_ascii_uppercase on one byte
AsciiLowerByte(b) == IF b >= 65 /\ b <= 90 THEN b + 32 ELSE b

AsciiUpperByte(b) == IF b >= 97 /\ b <= 122 THEN b - 32 ELSE b

(***************************************************************************)
(* EcoVec<u8> over the heap of shared buffers.  A heap h maps every buffer *)
(* id to [rc, cap, data]; rc = 0 means the buffer is not allocated.  A     *)
(* vector is a buffer id, or 0 for the sentinel that owns no allocation.   *)
(* Operations that change the heap return [vec |-> ..., h |-> ...].        *)
(***************************************************************************)
FreeBuf == [rc |-> 0, cap |-> 0, data |-> <<>>]

EmptyHeap == [b \in BufIds |-> FreeBuf]

\* allocate(capacity), filled with data
VecAlloc(h, cap, data) ==
  LET id == CHOOSE i \in BufIds :
              h[i].rc = 0 /\ \A j \in BufIds : j < i => h[j].rc # 0
  IN [vec |-> id,
      h |-> [h EXCEPT ![id] = [rc |-> 1, cap |-> cap, data |-> data]]]

\* EcoVec::with_capacity
VecWithCapacity(h, n) ==
  IF n = 0 THEN [vec |-> 0, h |-> h] ELSE VecAlloc(h, n, <<>>)

\* EcoVec::from(&[u8])
VecFromSlice(h, bytes) ==
  IF bytes = <<>> THEN [vec |-> 0, h |-> h]
  ELSE VecAlloc(h, Len(bytes), bytes)

\* Deref<Target = [u8]>
VecData(h, vec) == IF vec = 0 THEN <<>> ELSE h[vec].data

\* EcoVec::len
VecLen(h, vec) == Len(VecData(h, vec))

VecCapacity(h, vec) == IF vec = 0 THEN 0 ELSE h[vec].cap

\* is_unique(handle)
VecIsUnique(h, vec) == vec = 0 \/ h[vec].rc = 1

\* drop(handle): the refcount goes down, the buffer is freed at zero.
VecDrop(h, vec) ==
  IF vec = 0 THEN h
  ELSE IF h[vec].rc <= 1 THEN [h EXCEPT ![vec] = FreeBuf]
  ELSE [h EXCEPT ![vec].rc = @ - 1]

\* clone(handle): the refcount goes up, nothing is copied.
VecClone(h, vec) ==
  IF vec = 0 THEN h ELSE [h EXCEPT ![vec].rc = @ + 1]

\* Obtain an exclusive buffer of capacity cap holding the first keep bytes:
\* in place when the buffer is unique, else a private copy.
VecMakeUnique(h, vec, cap, keep) ==
  LET kept == SubSeq(VecData(h, vec), 1, keep)
  IN IF vec # 0 /\ h[vec].rc = 1
       THEN [vec |-> vec,
             h |-> [h EXCEPT ![vec] = [rc |-> 1, cap |-> Max(cap, @.cap),
                                       data |-> kept]]]
     ELSE IF cap = 0 THEN [vec |-> 0, h |-> VecDrop(h, vec)]
     ELSE VecAlloc(VecDrop(h, vec), cap, kept)

\* EcoVec::extend_from_byte_slice (push is the same with one byte):
\* exclusivity and capacity first, then the write.
VecExtend(h, vec, bytes) ==
  LET len == VecLen(h, vec)
      cap == VecCapacity(h, vec)
      needed == len + Len(bytes)
      target == IF cap < needed THEN Max(2 * cap, needed) ELSE cap
      u == VecMakeUnique(h, vec, target, len)
  IN IF u.vec = 0 THEN u
     ELSE [vec |-> u.vec,
           h |-> [u.h EXCEPT ![u.vec].data = @ \o bytes]]

\* EcoVec::truncate
VecTruncate(h, vec, newLen) ==
  IF newLen >= VecLen(h, vec) THEN [vec |-> vec, h |-> h]
  ELSE VecMakeUnique(h, vec, IF VecIsUnique(h, vec) THEN VecCapacity(h, vec)
                             ELSE newLen, newLen)

\* EcoVec::clear
VecClear(h, vec) == VecTruncate(h, vec, 0)

(***************************************************************************)
(* EcoString: Repr::Small { buf, len } or Repr::Large(EcoVec<u8>).         *)
(* A value is [tag, buf, len, vec]; buf is always LIMIT bytes long and len *)
(* is a u8.  Operations that may touch the heap return [v |-> ..., h |-> ...].*)
(***************************************************************************)
ZeroBuf == [i \in 1..LIMIT |-> 0]

Small(buf, len) == [tag |-> "Small", buf |-> buf, len |-> len, vec |-> 0]

Large(vec) == [tag |-> "Large", buf |-> ZeroBuf, len |-> 0, vec |-> vec]

\* A variable that holds no EcoString (not yet created, or dropped).
NoVal == [tag |-> "None", buf |-> ZeroBuf, len |-> 0, vec |-> 0]

\* `x as u8`
AsU8(x) == x % 256

\* buf with bytes written at indices from + 1 .. from + Len(bytes)
\* (copy_from_slice into a sub-slice of buf).
CopyInto(buf, from, bytes) ==
  [i \in 1..LIMIT |->
     IF i > from /\ i <= from + Len(bytes) THEN bytes[i - from] ELSE buf[i]]

\* EcoString::new
New == Small(ZeroBuf, 0)

\* with_capacity that takes the heap branch already at capacity = LIMIT.
WithCapacityStrict(h, capacity) ==
  IF capacity < LIMIT THEN [v |-> New, h |-> h]
  ELSE LET r == VecWithCapacity(h, capacity)
       IN [v |-> Large(r.vec), h |-> r.h]

\* EcoString::with_capacity
WithCapacity(h, capacity) ==
  IF capacity <= LIMIT THEN [v |-> New, h |-> h]
  ELSE LET r == VecWithCapacity(h, capacity)
       IN [v |-> Large(r.vec), h |-> r.h]

\* from_str without the get_mut(..len) check: always inline.
FromStrAlwaysInline(h, bytes) ==
  [v |-> Small(CopyInto(ZeroBuf, 0, bytes), AsU8(Len(bytes))), h |-> h]

\* EcoString::from_str: buf.get_mut(..len) is Some iff len <= LIMIT.
FromStr(h, bytes) ==
  LET len == Len(bytes)
  IN IF len <= LIMIT
       THEN [v |-> Small(CopyInto(ZeroBuf, 0, bytes), AsU8(len)), h |-> h]
     ELSE LET r == VecFromSlice(h, bytes)
          IN [v |-> Large(r.vec), h |-> r.h]

\* impl From<char> for EcoString
FromChar(c) ==
  LET bytes == EncodeUtf8(c)
  IN Small(CopyInto(ZeroBuf, 0, bytes), AsU8(Len(bytes)))

\* EcoString::len
StrLen(v, h) == IF v.tag = "Small" THEN v.len ELSE VecLen(h, v.vec)

\* EcoString::is_empty
IsEmpty(v, h) == StrLen(v, h) = 0

\* What a read past the end of buf gives: not a byte the program wrote.
OutOfBounds == 256

\* EcoString::as_str, as bytes: buf[..len] or the vector's contents.  The
\* slice of buf is unchecked: with len > LIMIT it would read past the array.
AsStr(v, h) ==
  IF v.tag = "Small"
    THEN [i \in 1..v.len |-> IF i <= LIMIT THEN v.buf[i] ELSE OutOfBounds]
  ELSE VecData(h, v.vec)

\* push_str whose promotion forgets the bytes that were inline.
PushStrDropExisting(v, h, bytes) ==
  IF v.tag = "Small"
    THEN LET prev == v.len
             new == prev + Len(bytes)
         IN IF new <= LIMIT
              THEN [v |-> Small(CopyInto(v.buf, prev, bytes), AsU8(new)),
                    h |-> h]
            ELSE LET a == VecWithCapacity(h, prev + Len(bytes))
                     c == VecExtend(a.h, a.vec, bytes)
                 IN [v |-> Large(c.vec), h |-> c.h]
  ELSE LET r == VecExtend(h, v.vec, bytes)
       IN [v |-> Large(r.vec), h |-> r.h]

\* push_str that promotes one byte early (new < LIMIT for new <= LIMIT).
PushStrStrictLimit(v, h, bytes) ==
  IF v.tag = "Small"
    THEN LET prev == v.len
             new == prev + Len(bytes)
         IN IF new < LIMIT
              THEN [v |-> Small(CopyInto(v.buf, prev, bytes), AsU8(new)),
                    h |-> h]
            ELSE LET existing == AsStr(Small(v.buf, prev), h)
                     a == VecWithCapacity(h, prev + Len(bytes))
                     b == VecExtend(a.h, a.vec, existing)
                     c == VecExtend(b.h, b.vec, bytes)
                 IN [v |-> Large(c.vec), h |-> c.h]
  ELSE LET r == VecExtend(h, v.vec, bytes)
       IN [v |-> Large(r.vec), h |-> r.h]

\* push_str whose promotion copies all of buf, not buf[..prev].
PushStrWholeBuf(v, h, bytes) ==
  IF v.tag = "Small"
    THEN LET prev == v.len
             new == prev + Len(bytes)
         IN IF new <= LIMIT
              THEN [v |-> Small(CopyInto(v.buf, prev, bytes), AsU8(new)),
                    h |-> h]
            ELSE LET existing == AsStr(Small(v.buf, LIMIT), h)
                     a == VecWithCapacity(h, prev + Len(bytes))
                     b == VecExtend(a.h, a.vec, existing)
                     c == VecExtend(b.h, b.vec, bytes)
                 IN [v |-> Large(c.vec), h |-> c.h]
  ELSE LET r == VecExtend(h, v.vec, bytes)
       IN [v |-> Large(r.vec), h |-> r.h]

\* EcoString::push_str
PushStr(v, h, bytes) ==
  IF v.tag = "Small"
    THEN LET prev == v.len
             new == prev + Len(bytes)
         IN IF new <= LIMIT
              THEN [v |-> Small(CopyInto(v.buf, prev, bytes), AsU8(new)),
                    h |-> h]
            ELSE LET existing == AsStr(Small(v.buf, prev), h)
                     a == VecWithCapacity(h, prev + Len(bytes))
                     b == VecExtend(a.h, a.vec, existing)
                     c == VecExtend(b.h, b.vec, bytes)
                 IN [v |-> Large(c.vec), h |-> c.h]
  ELSE LET r == VecExtend(h, v.vec, bytes)
       IN [v |-> Large(r.vec), h |-> r.h]

\* push whose inline fast path does not check that the slot exists.
PushUnchecked(v, h, c) ==
  IF LenUtf8(c) = 1 /\ v.tag = "Small"
    THEN [v |-> Small(CopyInto(v.buf, v.len, <<c>>), AsU8(v.len + 1)), h |-> h]
  ELSE IF LenUtf8(c) = 1 /\ v.tag = "Large"
    THEN LET r == VecExtend(h, v.vec, <<c>>)
         IN [v |-> Large(r.vec), h |-> r.h]
  ELSE PushStr(v, h, EncodeUtf8(c))

\* push that takes the `c as u8` fast path for every character.
PushTruncatingCast(v, h, c) ==
  IF v.tag = "Small" /\ v.len < LIMIT
    THEN [v |-> Small(CopyInto(v.buf, v.len, <<AsU8(c)>>), AsU8(v.len + 1)),
          h |-> h]
  ELSE IF v.tag = "Large"
    THEN LET r == VecExtend(h, v.vec, <<AsU8(c)>>)
         IN [v |-> Large(r.vec), h |-> r.h]
  ELSE PushStr(v, h, EncodeUtf8(c))

\* push whose `return` follows the inline fast path whether or not the
\* slot existed: an ASCII push onto a full inline string does nothing.
PushNoFallThrough(v, h, c) ==
  IF LenUtf8(c) = 1 /\ v.tag = "Small"
    THEN IF v.len < LIMIT
           THEN [v |-> Small(CopyInto(v.buf, v.len, <<c>>), AsU8(v.len + 1)),
                 h |-> h]
         ELSE [v |-> v, h |-> h]
  ELSE IF LenUtf8(c) = 1 /\ v.tag = "Large"
    THEN LET r == VecExtend(h, v.vec, <<c>>)
         IN [v |-> Large(r.vec), h |-> r.h]
  ELSE PushStr(v, h, EncodeUtf8(c))

\* EcoString::push
Push(v, h, c) ==
  IF LenUtf8(c) = 1 /\ v.tag = "Small" /\ v.len < LIMIT
    THEN [v |-> Small(CopyInto(v.buf, v.len, <<c>>), AsU8(v.len + 1)), h |-> h]
  ELSE IF LenUtf8(c) = 1 /\ v.tag = "Large"
    THEN LET r == VecExtend(h, v.vec, <<c>>)
         IN [v |-> Large(r.vec), h |-> r.h]
  ELSE PushStr(v, h, EncodeUtf8(c))

\* pop that shortens the vector's buffer where it is, shared or not.
PopInPlace(v, h) ==
  LET slice == AsStr(v, h)
      c == LastChar(slice)
  IN IF c = NoChar THEN [v |-> v, h |-> h, ret |-> NoChar]
     ELSE LET shrunk == Len(slice) - LenUtf8(c)
          IN IF v.tag = "Small"
               THEN [v |-> Small(v.buf, AsU8(shrunk)), h |-> h, ret |-> c]
             ELSE [v |-> v,
                   h |-> [h EXCEPT ![v.vec].data = SubSeq(@, 1, shrunk)],
                   ret |-> c]

\* pop that removes one byte instead of one character.
PopOneByte(v, h) ==
  LET slice == AsStr(v, h)
      c == LastChar(slice)
  IN IF c = NoChar THEN [v |-> v, h |-> h, ret |-> NoChar]
     ELSE LET shrunk == Len(slice) - 1
          IN IF v.tag = "Small"
               THEN [v |-> Small(v.buf, AsU8(shrunk)), h |-> h, ret |-> c]
             ELSE LET r == VecTruncate(h, v.vec, shrunk)
                  IN [v |-> Large(r.vec), h |-> r.h, ret |-> c]

\* EcoString::pop: [v, h, ret], ret the removed character or NoChar.
Pop(v, h) ==
  LET slice == AsStr(v, h)
      c == LastChar(slice)
  IN IF c = NoChar THEN [v |-> v, h |-> h, ret |-> NoChar]
     ELSE LET shrunk == Len(slice) - LenUtf8(c)
          IN IF v.tag = "Small"
               THEN [v |-> Small(v.buf, AsU8(shrunk)), h |-> h, ret |-> c]
             ELSE LET r == VecTruncate(h, v.vec, shrunk)
                  IN [v |-> Large(r.vec), h |-> r.h, ret |-> c]

\* clear that resets the string to EcoString::new().
ClearToNew(v, h) ==
  IF v.tag = "Small" THEN [v |-> Small(v.buf, 0), h |-> h]
  ELSE [v |-> New, h |-> VecDrop(h, v.vec)]

\* clear that empties the vector's buffer where it is, shared or not.
ClearInPlace(v, h) ==
  IF v.tag = "Small" THEN [v |-> Small(v.buf, 0), h |-> h]
  ELSE [v |-> v,
        h |-> IF v.vec = 0 THEN h ELSE [h EXCEPT ![v.vec].data = <<>>]]

\* EcoString::clear
Clear(v, h) ==
  IF v.tag = "Small" THEN [v |-> Small(v.buf, 0), h |-> h]
  ELSE LET r == VecClear(h, v.vec)
       IN [v |-> Large(r.vec), h |-> r.h]

\* clone that copies the vector's bytes into a buffer of its own.
CloneDeep(v, h) ==
  IF v.tag = "Small" THEN [v |-> v, h |-> h]
  ELSE LET r == VecFromSlice(h, VecData(h, v.vec))
       IN [v |-> Large(r.vec), h |-> r.h]

\* clone as a plain copy of the handle: the reference is not counted.
CloneUncounted(v, h) == [v |-> v, h |-> h]

\* #[derive(Clone)]: the inline bytes are copied, the vector is shared.
Clone(v, h) ==
  IF v.tag = "Small" THEN [v |-> v, h |-> h]
  ELSE [v |-> v, h |-> VecClone(h, v.vec)]

\* Drop of an EcoString
Drop(v, h) == IF v.tag = "Large" THEN VecDrop(h, v.vec) ELSE h

\* for c in chars { s.push(c) }, from the state w = [v, h].  The test on
\* w.v has the string computed before the next character is pushed.
RECURSIVE PushAll(_, _)
PushAll(w, chars) ==
  IF chars = <<>> \/ w.v.tag = "None" THEN w
  ELSE PushAll(Push(w.v, w.h, Head(chars)), Tail(chars))

\* The per-character loop of to_lowercase / to_uppercase.
RECURSIVE MapChars(_, _)
MapChars(chars, upper) ==
  IF chars = <<>> THEN <<>>
  ELSE (IF upper THEN CharToUppercase(Head(chars))
        ELSE CharToLowercase(Head(chars)))
       \o MapChars(Tail(chars), upper)

\* to_lowercase whose fast path flips the case bit of every ASCII letter.
ToLowercaseFlip(v, h) ==
  IF v.tag = "Small" /\ IsAscii(AsStr(v, h))
    THEN [v |-> Small([i \in 1..LIMIT |->
                         IF i <= v.len
                           THEN (IF AsciiLowerByte(v.buf[i]) # v.buf[i]
                                   THEN AsciiLowerByte(v.buf[i])
                                 ELSE AsciiUpperByte(v.buf[i]))
                         ELSE v.buf[i]], v.len),
          h |-> h]
  ELSE LET str == AsStr(v, h)
           chars == Chars(str)
       IN IF \E i \in 1..Len(chars) : chars[i] = 931
            THEN FromStr(h, StrBytes(StrToLowercase(chars)))
          ELSE PushAll(WithCapacity(h, Len(str)), MapChars(chars, FALSE))

\* EcoString::to_lowercase (self is not changed; the result is new).
ToLowercase(v, h) ==
  IF v.tag = "Small" /\ IsAscii(AsStr(v, h))
    THEN [v |-> Small([i \in 1..LIMIT |->
                         IF i <= v.len THEN AsciiLowerByte(v.buf[i])
                         ELSE v.buf[i]], v.len),
          h |-> h]
  ELSE LET str == AsStr(v, h)
           chars == Chars(str)
       IN IF \E i \in 1..Len(chars) : chars[i] = 931
            THEN FromStr(h, StrBytes(StrToLowercase(chars)))
          ELSE PushAll(WithCapacity(h, Len(str)), MapChars(chars, FALSE))

\* to_uppercase whose fast path was copied from to_lowercase unchanged.
ToUppercaseCopied(v, h) ==
  IF v.tag = "Small" /\ IsAscii(AsStr(v, h))
    THEN [v |-> Small([i \in 1..LIMIT |->
                         IF i <= v.len THEN AsciiLowerByte(v.buf[i])
                         ELSE v.buf[i]], v.len),
          h |-> h]
  ELSE LET str == AsStr(v, h)
       IN PushAll(WithCapacity(h, Len(str)), MapChars(Chars(str), TRUE))

\* EcoString::to_uppercase
ToUppercase(v, h) ==
  IF v.tag = "Small" /\ IsAscii(AsStr(v, h))
    THEN [v |-> Small([i \in 1..LIMIT |->
                         IF i <= v.len THEN AsciiUpperByte(v.buf[i])
                         ELSE v.buf[i]], v.len),
          h |-> h]
  ELSE LET str == AsStr(v, h)
       IN PushAll(WithCapacity(h, Len(str)), MapChars(Chars(str), TRUE))

\* usize::wrapping_mul, which `*` is in a release build.
WrappingMul(a, b) == (a * b) % (UsizeMax + 1)

\* usize::saturating_mul
SaturatingMul(a, b) == Min(a * b, UsizeMax)

\* buf[prev * i .. prev * (i + 1)].copy_from_slice(src) for i in from..n
RECURSIVE RepeatInline(_, _, _, _)
RepeatInline(buf, src, i, n) ==
  IF i >= n THEN buf
  ELSE RepeatInline(CopyInto(buf, Len(src) * i, src), src, i + 1, n)

\* for _ in 0..n { vec.extend_from_byte_slice(slice) }
RECURSIVE RepeatExtend(_, _, _)
RepeatExtend(r, slice, n) ==
  IF n = 0 THEN r
  ELSE RepeatExtend(VecExtend(r.h, r.vec, slice), slice, n - 1)

\* repeat whose heap loop runs one time too few.
RepeatOneShort(v, h, n) ==
  IF n = 0 THEN [v |-> New, h |-> h]
  ELSE IF v.tag = "Small" /\ SaturatingMul(v.len, n) <= LIMIT
    THEN [v |-> Small(RepeatInline(ZeroBuf, AsStr(v, h), 0, n),
                      AsU8(SaturatingMul(v.len, n))),
          h |-> h]
  ELSE LET slice == AsStr(v, h)
           capacity == SaturatingMul(Len(slice), n)
           r == RepeatExtend(VecWithCapacity(h, capacity), slice, n - 1)
       IN [v |-> Large(r.vec), h |-> r.h]

\* repeat's test for the inline branch: self is Small and
\* prev.saturating_mul(n) <= LIMIT.
RepeatFitsInline(v, n) ==
  v.tag = "Small" /\ SaturatingMul(v.len, n) <= LIMIT

\* The capacity repeat asks of EcoVec::with_capacity on its heap branch.
RepeatCapacity(v, h, n) == SaturatingMul(Len(AsStr(v, h)), n)

\* EcoString::repeat
Repeat(v, h, n) ==
  IF n = 0 THEN [v |-> New, h |-> h]
  ELSE IF RepeatFitsInline(v, n)
    THEN [v |-> Small(RepeatInline(ZeroBuf, AsStr(v, h), 0, n),
                      AsU8(SaturatingMul(v.len, n))),
          h |-> h]
  ELSE LET slice == AsStr(v, h)
           capacity == RepeatCapacity(v, h, n)
           r == RepeatExtend(VecWithCapacity(h, capacity), slice, n)
       IN [v |-> Large(r.vec), h |-> r.h]

\* impl PartialEq: self.as_str().eq(other.as_str()), byte by byte.
RECURSIVE BytesEq(_, _)
BytesEq(a, b) ==
  IF a = <<>> \/ b = <<>> THEN a = <<>> /\ b = <<>>
  ELSE Head(a) = Head(b) /\ BytesEq(Tail(a), Tail(b))

\* == as #[derive(PartialEq)] on Repr would give it: same variant, and the
\* same buf and len, or the same vector contents.
EqDerived(x, y, h) ==
  /\ x.tag = y.tag
  /\ x.buf = y.buf
  /\ x.len = y.len
  /\ VecData(h, x.vec) = VecData(h, y.vec)

Eq(x, y, h) == BytesEq(AsStr(x, h), AsStr(y, h))

\* impl Ord: self.as_str().cmp(other.as_str()): lexicographic on the
\* bytes; -1 Less, 0 Equal, 1 Greater.
RECURSIVE BytesCmp(_, _)
BytesCmp(a, b) ==
  IF a = <<>> THEN (IF b = <<>> THEN 0 ELSE -1)
  ELSE IF b = <<>> THEN 1
  ELSE IF Head(a) < Head(b) THEN -1
  ELSE IF Head(a) > Head(b) THEN 1
  ELSE BytesCmp(Tail(a), Tail(b))

Cmp(x, y, h) == BytesCmp(AsStr(x, h), AsStr(y, h))

\* impl Hash: self.as_str().hash(state): what is fed to the hasher, the
\* bytes of the string and then the byte 0xff.
Hash(x, h) == AsStr(x, h) \o <<255>>

(***************************************************************************)
(* The state: the EcoString variables, the heap behind them, and what a    *)
(* caller knows about each variable without looking inside it.             *)
(***************************************************************************)
VARIABLES
  vals,    \* vals[s]: the EcoString held by variable s, or NoVal
  heap,    \* the shared buffers
  text,    \* text[s]: the characters the calls made so far put into vals[s]
  made,    \* made[s]: how vals[s] came to be: [by, of, appended]
  last,    \* the last call: [op, slot, src, arg, ret]
  nops,    \* number of calls made
  threads  \* threads[s]: where the thread that owns vals[s] is in its call

vars == <<vals, heap, text, made, last, nops, threads>>

Call(op, slot, src, arg, ret) ==
  [op |-> op, slot |-> slot, src |-> src, arg |-> arg, ret |-> ret]

RECURSIVE Concat(_, _)
Concat(chars, n) == IF n = 0 THEN <<>> ELSE chars \o Concat(chars, n - 1)

ButLast(chars) == SubSeq(chars, 1, Len(chars) - 1)

\* made[s].by is the constructor call, made[s].of the variable it was
\* called on (0: none, or dropped since), made[s].appended whether every
\* call on vals[s] since was a push or a push_str.
Made(by, of) == [by |-> by, of |-> of, appended |-> TRUE]

NotMade == [by |-> "none", of |-> 0, appended |-> FALSE]

\* A thread that is between two calls.
Idle == [pc |-> "idle", op |-> "none", arg |-> 0, keep |-> 0, cap |-> 0,
         tmp |-> 0]

Init ==
  /\ vals = [s \in Slots |-> NoVal]
  /\ heap = EmptyHeap
  /\ text = [s \in Slots |-> <<>>]
  /\ made = [s \in Slots |-> NotMade]
  /\ last = Call("init", 0, 0, 0, NoChar)
  /\ nops = 0
  /\ threads = [s \in Slots |-> Idle]

\* A constructor call whose result [v, h] is bound to the unused variable s.
\* Variables are interchangeable, so the first unused one is taken.
Bind(s, r, chars, call) ==
  /\ nops < MaxOps
  /\ vals[s] = NoVal
  /\ \A j \in Slots : j < s => vals[j] # NoVal
  /\ Len(StrBytes(chars)) <= MaxLen
  /\ vals' = [vals EXCEPT ![s] = r.v]
  /\ heap' = r.h
  /\ text' = [text EXCEPT ![s] = chars]
  /\ made' = [made EXCEPT ![s] = Made(call.op, call.src)]
  /\ last' = call
  /\ nops' = nops + 1
  /\ threads' = threads

\* A call on the variable s through &mut self, with result [v, h].
Mutate(s, r, chars, call) ==
  /\ nops < MaxOps
  /\ vals[s] # NoVal
  /\ Len(StrBytes(chars)) <= MaxLen
  /\ vals' = [vals EXCEPT ![s] = r.v]
  /\ heap' = r.h
  /\ text' = [text EXCEPT ![s] = chars]
  /\ made' = [made EXCEPT ![s].appended =
                  @ /\ call.op \in {"push", "push_str"}]
  /\ last' = call
  /\ nops' = nops + 1
  /\ threads' = threads

\* let s = EcoString::new();
CallNew(s) ==
  Bind(s, [v |-> New, h |-> heap], <<>>, Call("new", s, 0, 0, NoChar))

\* let s = EcoString::with_capacity(n);
CallWithCapacity(s, n) ==
  Bind(s, WithCapacity(heap, n), <<>>,
       Call("with_capacity", s, 0, n, NoChar))

\* let s = EcoString::from(Texts[t]);
CallFrom(s, t) ==
  Bind(s, FromStr(heap, StrBytes(Texts[t])), Texts[t],
       Call("from", s, 0, t, NoChar))

\* let s = EcoString::from(c);
CallFromChar(s, c) ==
  Bind(s, [v |-> FromChar(c), h |-> heap], <<c>>,
       Call("from_char", s, 0, c, NoChar))

\* s.push(c);
CallPush(s, c) ==
  Mutate(s, Push(vals[s], heap, c), Append(text[s], c),
         Call("push", s, 0, c, NoChar))

\* s.push_str(Texts[t]);
CallPushStr(s, t) ==
  Mutate(s, PushStr(vals[s], heap, StrBytes(Texts[t])), text[s] \o Texts[t],
         Call("push_str", s, 0, t, NoChar))

\* s.pop();
CallPop(s) ==
  LET r == Pop(vals[s], heap)
  IN Mutate(s, r, IF text[s] = <<>> THEN <<>> ELSE ButLast(text[s]),
            Call("pop", s, 0, 0, r.ret))

\* s.clear();
CallClear(s) ==
  Mutate(s, Clear(vals[s], heap), <<>>, Call("clear", s, 0, 0, NoChar))

\* let d = s.clone();
CallClone(s, d) ==
  /\ vals[s] # NoVal
  /\ Bind(d, Clone(vals[s], heap), text[s],
          Call("clone", d, s, 0, NoChar))

\* let d = s.to_lowercase();
CallToLowercase(s, d) ==
  /\ vals[s] # NoVal
  /\ Bind(d, ToLowercase(vals[s], heap), StrToLowercase(text[s]),
          Call("to_lowercase", d, s, 0, NoChar))

\* let d = s.to_uppercase();
CallToUppercase(s, d) ==
  /\ vals[s] # NoVal
  /\ Bind(d, ToUppercase(vals[s], heap), StrToUppercase(text[s]),
          Call("to_uppercase", d, s, 0, NoChar))

\* let d = s.repeat(n);
CallRepeat(s, d, n) ==
  /\ vals[s] # NoVal
  /\ Len(StrBytes(text[s])) * n <= MaxLen
  /\ Bind(d, Repeat(vals[s], heap, n), Concat(text[s], n),
          Call("repeat", d, s, n, NoChar))

\* drop(s);
CallDrop(s) ==
  /\ nops < MaxOps
  /\ vals[s] # NoVal
  /\ vals' = [vals EXCEPT ![s] = NoVal]
  /\ heap' = Drop(vals[s], heap)
  /\ text' = [text EXCEPT ![s] = <<>>]
  /\ made' = [d \in Slots |->
                IF d = s THEN NotMade
                ELSE IF made[d].of = s THEN [made[d] EXCEPT !.of = 0]
                ELSE made[d]]
  /\ last' = Call("drop", s, 0, 0, NoChar)
  /\ nops' = nops + 1
  /\ threads' = threads

Next ==
  \/ \E s \in Slots : CallNew(s)
  \/ \E s \in Slots, n \in Capacities : CallWithCapacity(s, n)
  \/ \E s \in Slots, t \in FromTexts : CallFrom(s, t)
  \/ \E s \in Slots, c \in PushChars : CallFromChar(s, c)
  \/ \E s \in Slots, c \in PushChars : CallPush(s, c)
  \/ \E s \in Slots, t \in PushTexts : CallPushStr(s, t)
  \/ \E s \in Slots : CallPop(s)
  \/ \E s \in Slots : CallClear(s)
  \/ \E s \in Slots, d \in Slots : CallClone(s, d)
  \/ \E s \in Slots, d \in Slots : CallToLowercase(s, d)
  \/ \E s \in Slots, d \in Slots : CallToUppercase(s, d)
  \/ \E s \in Slots, d \in Slots, n \in RepeatCounts : CallRepeat(s, d, n)
  \/ \E s \in Slots : CallDrop(s)

Spec == Init /\ [][Next]_vars

(***************************************************************************)
(* Threads.  Each variable belongs to one thread, and the variables start  *)
(* as clones of one heap-backed string.  A call that writes (push, pop,    *)
(* clear) is taken apart into the steps of the shared buffer that other    *)
(* threads can interleave with: the uniqueness query, the private copy,    *)
(* the release of the shared buffer, and the write.  clone and drop touch  *)
(* nothing but the atomic count and are one step.                          *)
(***************************************************************************)
\* The characters the threads push: one byte (EcoVec::push) and four
\* bytes (push_str).
ThreadChars == {97, 127793}

\* The characters of a string after the call op(arg) on it.
ApplyText(chars, op, arg) ==
  IF op = "push" THEN Append(chars, arg)
  ELSE IF op = "pop" THEN (IF chars = <<>> THEN <<>> ELSE ButLast(chars))
  ELSE <<>>

\* The bytes the call op(arg) appends.
Appended(op, arg) == IF op = "push" THEN EncodeUtf8(arg) ELSE <<>>

\* let a = EcoString::from(Texts[7]); then one clone of a for every thread.
ThreadsInit ==
  LET r == FromStr(EmptyHeap, StrBytes(Texts[7]))
  IN /\ vals = [s \in Slots |-> r.v]
     /\ heap = [r.h EXCEPT ![r.v.vec].rc = NumSlots]
     /\ text = [s \in Slots |-> Texts[7]]
     /\ made = [s \in Slots |-> Made("clone", 0)]
     /\ last = Call("init", 0, 0, 0, NoChar)
     /\ nops = 0
     /\ threads = [s \in Slots |-> Idle]

\* Thread s enters s.push(arg), s.pop() or s.clear() on its heap-backed
\* string.
ThreadBegin(s, op, arg) ==
  /\ nops < MaxOps
  /\ threads[s].pc = "idle"
  /\ vals[s].tag = "Large"
  /\ threads' = [threads EXCEPT ![s] = [Idle EXCEPT !.pc = "check",
                                                    !.op = op, !.arg = arg]]
  /\ last' = Call(op, s, 0, arg, NoChar)
  /\ nops' = nops + 1
  /\ UNCHANGED <<vals, heap, text, made>>

\* Thread s reads the length and asks is_unique.  Nothing to remove: the
\* call is over.  Unique: it will write where the bytes are.  Shared (or
\* not allocated): it will copy the bytes it keeps first.
ThreadCheck(s) ==
  /\ threads[s].pc = "check"
  /\ LET t == threads[s]
         vec == vals[s].vec
         len == VecLen(heap, vec)
         cap == VecCapacity(heap, vec)
         c == LastChar(VecData(heap, vec))
         exclusive == vec # 0 /\ VecIsUnique(heap, vec)
         keep == IF t.op = "push" THEN len
                 ELSE IF t.op = "pop" /\ c # NoChar THEN len - LenUtf8(c)
                 ELSE 0
         needed == keep + Len(Appended(t.op, t.arg))
         target == IF t.op = "push"
                     THEN (IF cap < needed THEN Max(2 * cap, needed) ELSE cap)
                   ELSE IF exclusive THEN cap
                   ELSE keep
     IN IF t.op # "push" /\ keep >= len
          THEN /\ threads' = [threads EXCEPT ![s] = Idle]
               /\ text' = [text EXCEPT ![s] = ApplyText(@, t.op, t.arg)]
        ELSE /\ threads' = [threads EXCEPT
                              ![s] = [t EXCEPT
                                        !.pc = IF exclusive THEN "write"
                                               ELSE "copy",
                                        !.keep = keep, !.cap = target]]
             /\ text' = text
  /\ last' = Call("is_unique", s, 0, 0, NoChar)
  /\ UNCHANGED <<vals, heap, made, nops>>

\* Thread s copies the bytes it keeps into a buffer of its own (none when
\* it keeps nothing and asks for no capacity).
ThreadCopy(s) ==
  /\ threads[s].pc = "copy"
  /\ LET t == threads[s]
         kept == SubSeq(VecData(heap, vals[s].vec), 1, t.keep)
         r == IF t.cap = 0 THEN [vec |-> 0, h |-> heap]
              ELSE VecAlloc(heap, t.cap, kept)
     IN /\ heap' = r.h
        /\ threads' = [threads EXCEPT ![s] = [t EXCEPT !.pc = "release",
                                                       !.tmp = r.vec]]
  /\ last' = Call("copy", s, 0, 0, NoChar)
  /\ UNCHANGED <<vals, text, made, nops>>

\* Thread s lets go of the buffer it shared (the count goes down; at zero
\* the buffer is freed) and goes on with its own.
ThreadRelease(s) ==
  /\ threads[s].pc = "release"
  /\ LET t == threads[s]
         write == Appended(t.op, t.arg) # <<>>
     IN /\ heap' = VecDrop(heap, vals[s].vec)
        /\ vals' = [vals EXCEPT ![s] = Large(t.tmp)]
        /\ threads' = [threads EXCEPT
                         ![s] = IF write THEN [t EXCEPT !.pc = "write",
                                                        !.tmp = 0]
                                ELSE Idle]
        /\ text' = [text EXCEPT
                      ![s] = IF write THEN @ ELSE ApplyText(@, t.op, t.arg)]
  /\ last' = Call("release", s, 0, 0, NoChar)
  /\ UNCHANGED <<made, nops>>

\* Thread s writes bytes, length and capacity of the buffer it holds,
\* without looking at the count again.  last.arg records the count the
\* buffer had when it was written.
ThreadWrite(s) ==
  /\ threads[s].pc = "write"
  /\ LET t == threads[s]
         b == vals[s].vec
     IN /\ heap' = [heap EXCEPT
                      ![b] = [rc |-> @.rc, cap |-> Max(@.cap, t.cap),
                              data |-> SubSeq(@.data, 1, t.keep)
                                         \o Appended(t.op, t.arg)]]
        /\ text' = [text EXCEPT ![s] = ApplyText(@, t.op, t.arg)]
        /\ last' = Call("write", s, 0, heap[b].rc, NoChar)
  /\ threads' = [threads EXCEPT ![s] = Idle]
  /\ UNCHANGED <<vals, made, nops>>

\* Thread s clones its string for the thread d, which has none.
ThreadClone(s, d) ==
  /\ nops < MaxOps
  /\ threads[s].pc = "idle"
  /\ vals[s] # NoVal
  /\ vals[d] = NoVal
  /\ LET r == Clone(vals[s], heap)
     IN /\ vals' = [vals EXCEPT ![d] = r.v]
        /\ heap' = r.h
  /\ text' = [text EXCEPT ![d] = text[s]]
  /\ made' = [made EXCEPT ![d] = Made("clone", s)]
  /\ last' = Call("clone", d, s, 0, NoChar)
  /\ nops' = nops + 1
  /\ threads' = threads

\* Thread s drops its string.
ThreadDrop(s) ==
  /\ nops < MaxOps
  /\ threads[s].pc = "idle"
  /\ vals[s] # NoVal
  /\ vals' = [vals EXCEPT ![s] = NoVal]
  /\ heap' = Drop(vals[s], heap)
  /\ text' = [text EXCEPT ![s] = <<>>]
  /\ made' = [made EXCEPT ![s] = NotMade]
  /\ last' = Call("drop", s, 0, 0, NoChar)
  /\ nops' = nops + 1
  /\ threads' = threads

ThreadsNext ==
  \/ \E s \in Slots, c \in ThreadChars : ThreadBegin(s, "push", c)
  \/ \E s \in Slots : ThreadBegin(s, "pop", 0)
  \/ \E s \in Slots : ThreadBegin(s, "clear", 0)
  \/ \E s \in Slots : ThreadCheck(s)
  \/ \E s \in Slots : ThreadCopy(s)
  \/ \E s \in Slots : ThreadRelease(s)
  \/ \E s \in Slots : ThreadWrite(s)
  \/ \E s \in Slots, d \in Slots : ThreadClone(s, d)
  \/ \E s \in Slots : ThreadDrop(s)

SpecThreads == ThreadsInit /\ [][ThreadsNext]_vars

(***************************************************************************)
(* Properties.                                                             *)
(***************************************************************************)
Live == {s \in Slots : vals[s] # NoVal}

\* The calls that change a string in place, through &mut self.
InPlaceOps == {"push", "push_str", "pop", "clear"}

\* Lexicographic comparison of two texts, character by character.
RECURSIVE CharsCmp(_, _)
CharsCmp(a, b) ==
  IF a = <<>> THEN (IF b = <<>> THEN 0 ELSE -1)
  ELSE IF b = <<>> THEN 1
  ELSE IF Head(a) < Head(b) THEN -1
  ELSE IF Head(a) > Head(b) THEN 1
  ELSE CharsCmp(Tail(a), Tail(b))

\* C1: clone-on-write isolation.  A push, push_str, pop or clear on one
\* variable never changes what as_str() gives for any other variable, in
\* particular not for the variable it was cloned from or for its clones.
C1_CloneIsolation ==
  [][\A a \in Slots :
       (vals[a] # NoVal /\ last'.op \in InPlaceOps /\ last'.slot # a)
         => /\ vals'[a] # NoVal
            /\ AsStr(vals'[a], heap') = AsStr(vals[a], heap)]_vars

\* b is a heap-form clone of a, b has just been popped, and a still holds
\* the 15-byte text it was made from.
C1_Witness ==
  \E a \in Slots, b \in Slots :
    /\ made[b].by = "clone" /\ made[b].of = a
    /\ made[a].by = "from"
    /\ vals[a].tag = "Large" /\ vals[b].tag = "Large"
    /\ last.op = "pop" /\ last.slot = b /\ last.ret # NoChar
    /\ AsStr(vals[a], heap) = StrBytes(Texts[7])
    /\ AsStr(vals[b], heap) # AsStr(vals[a], heap)

C3_FromRoundTrip ==
  last.op = "from"
    => /\ AsStr(vals[last.slot], heap) = StrBytes(Texts[last.arg])
       /\ StrLen(vals[last.slot], heap) = Len(StrBytes(Texts[last.arg]))

\* One string made from the 14-byte text (inline) and one just made from
\* the 15-byte text (heap).
C3_Witness ==
  \E a \in Live :
    /\ made[a].by = "from" /\ vals[a].tag = "Small" /\ vals[a].len = LIMIT
    /\ last.op = "from" /\ last.slot # a
    /\ vals[last.slot].tag = "Large"
    /\ StrLen(vals[last.slot], heap) = LIMIT + 1

\* C4: an inline string has len <= LIMIT (and its buffer LIMIT bytes), and
\* a string whose content needs more than LIMIT bytes is in heap form.
C4_InlineLength ==
  \A s \in Live :
    /\ vals[s].tag = "Small"
         => vals[s].len <= LIMIT /\ DOMAIN vals[s].buf = 1..LIMIT
    /\ Len(StrBytes(text[s])) > LIMIT => vals[s].tag = "Large"

\* An inline string of exactly LIMIT bytes was pushed one ASCII character
\* and is now a heap string of LIMIT + 1 bytes.
C4_Witness ==
  \E s \in Live :
    /\ made[s].by = "from"
    /\ last.op = "push" /\ last.slot = s /\ LenUtf8(last.arg) = 1
    /\ vals[s].tag = "Large"
    /\ StrLen(vals[s], heap) = LIMIT + 1

\* C5: the active bytes of every string are valid UTF-8.
C5_ValidUtf8 ==
  \A s \in Live : IsValidUtf8(AsStr(vals[s], heap))

\* A multi-byte character was popped off a string that still ends in
\* another multi-byte character.
C5_Witness ==
  /\ last.op = "pop" /\ last.ret >= 128
  /\ LET rest == AsStr(vals[last.slot], heap)
     IN rest # <<>> /\ rest[Len(rest)] >= 128

\* C6: a push, push_str, pop or clear on a heap-form string leaves it in
\* heap form, and clear() gives length 0 in the representation it found.
C6_HeapIsTerminal ==
  [][\A s \in Slots :
       (last'.op \in InPlaceOps /\ last'.slot = s)
         => /\ vals[s].tag = "Large" => vals'[s].tag = "Large"
            /\ last'.op = "clear"
                 => /\ vals'[s].tag = vals[s].tag
                    /\ StrLen(vals'[s], heap') = 0]_vars

\* A heap-form string made from the 15-byte text, popped and then cleared:
\* empty, and still in heap form.
C6_Witness ==
  \E s \in Live :
    /\ made[s].by = "from" /\ vals[s].tag = "Large"
    /\ last.op = "clear" /\ last.slot = s
    /\ StrLen(vals[s], heap) = 0
    /\ nops = 3

\* C7: ==, cmp and the hash input of two strings are those of their texts,
\* whatever their representations.
C7_ContentComparison ==
  \A x \in Live, y \in Live :
    /\ Eq(vals[x], vals[y], heap) <=> (text[x] = text[y])
    /\ Cmp(vals[x], vals[y], heap) = CharsCmp(text[x], text[y])
    /\ text[x] = text[y] => Hash(vals[x], heap) = Hash(vals[y], heap)

\* with_capacity(20) then push_str("ab") in heap form, and from("ab")
\* inline: equal.
C7_Witness ==
  \E x \in Live, y \in Live :
    /\ vals[x].tag = "Large" /\ made[x].by = "with_capacity"
    /\ vals[y].tag = "Small" /\ made[y].by = "from"
    /\ text[x] = Texts[2] /\ text[y] = Texts[2]
    /\ Eq(vals[x], vals[y], heap)

\* C8: pop() on an empty string returns no character and changes neither
\* content nor length; otherwise it returns the last whole character c,
\* the string shrinks by the 1 to 4 bytes of c, and push(c) restores it.
C8_PopContract ==
  [][last'.op = "pop"
       => LET s == last'.slot
              c == last'.ret
              before == AsStr(vals[s], heap)
              after == AsStr(vals'[s], heap')
          IN IF before = <<>>
               THEN /\ c = NoChar
                    /\ after = <<>>
                    /\ StrLen(vals'[s], heap') = 0
                    /\ vals'[s].tag = vals[s].tag
             ELSE /\ c = Chars(before)[Len(Chars(before))]
                  /\ LenUtf8(c) \in 1..4
                  /\ StrLen(vals'[s], heap')
                       = StrLen(vals[s], heap) - LenUtf8(c)
                  /\ after = SubSeq(before, 1, Len(before) - LenUtf8(c))
                  /\ LET p == Push(vals'[s], heap', c)
                     IN AsStr(p.v, p.h) = before]_vars

\* The four-byte seedling was popped off a heap-form string.
C8_Witness ==
  /\ last.op = "pop" /\ last.ret = 127793
  /\ vals[last.slot].tag = "Large"
  /\ StrLen(vals[last.slot], heap) > LIMIT

\* C9: d = s.repeat(n) is empty for n = 0, and otherwise is s's content n
\* times over, of length len(s) * n; s is unchanged.
C9_Repeat ==
  [][last'.op = "repeat"
       => LET s == last'.src
              d == last'.slot
              n == last'.arg
              before == AsStr(vals[s], heap)
          IN /\ AsStr(vals'[d], heap') = Concat(before, n)
             /\ StrLen(vals'[d], heap') = StrLen(vals[s], heap) * n
             /\ n = 0 => IsEmpty(vals'[d], heap')
             /\ vals'[s] = vals[s]
             /\ AsStr(vals'[s], heap') = before]_vars

\* An inline "Welcome" repeated 3 times: 21 bytes, built on the heap.
C9_Witness ==
  /\ last.op = "repeat" /\ last.arg = 3
  /\ vals[last.src].tag = "Small" /\ vals[last.src].len = 7
  /\ vals[last.slot].tag = "Large"
  /\ StrLen(vals[last.slot], heap) = 21

\* C10: push_str(t) on an inline string of length p stays inline, with
\* length p + len(t), iff p + len(t) <= LIMIT, and otherwise gives a heap
\* string holding the inline bytes followed by t; on a heap string it
\* appends t and stays in heap form.
C10_PushStrPromotion ==
  [][last'.op = "push_str"
       => LET s == last'.slot
              t == StrBytes(Texts[last'.arg])
              old == vals[s]
              new == vals'[s]
              before == AsStr(old, heap)
              after == AsStr(new, heap')
          IN IF old.tag = "Small"
               THEN /\ new.tag = "Small" <=> old.len + Len(t) <= LIMIT
                    /\ new.tag = "Small" => new.len = old.len + Len(t)
                    /\ new.tag # "Small"
                         => new.tag = "Large" /\ after = before \o t
             ELSE new.tag = "Large" /\ after = before \o t]_vars

\* A push_str of the 11-byte text took an inline string that was made by
\* new() and held at most LIMIT bytes into heap form.
C10_Witness ==
  \E s \in Live :
    /\ made[s].by = "new" /\ made[s].appended
    /\ last.op = "push_str" /\ last.slot = s /\ last.arg = 4
    /\ vals[s].tag = "Large"
    /\ StrLen(vals[s], heap) - 11 <= LIMIT
    /\ StrLen(vals[s], heap) - 11 > 0

\* C11: what a constructor returns.  new() and with_capacity(n) give a
\* string of length 0, inline when n <= LIMIT and heap-backed otherwise;
\* from(text) is inline exactly when the text has at most LIMIT bytes and
\* holds that many bytes; from(char) is inline.
C11_ConstructorRepresentation ==
  LET v == vals[last.slot]
  IN /\ last.op = "new" => v.tag = "Small" /\ StrLen(v, heap) = 0
     /\ last.op = "with_capacity"
          => /\ StrLen(v, heap) = 0
             /\ v.tag = (IF last.arg <= LIMIT THEN "Small" ELSE "Large")
     /\ last.op = "from"
          => LET n == Len(StrBytes(Texts[last.arg]))
             IN /\ StrLen(v, heap) = n
                /\ v.tag = (IF n <= LIMIT THEN "Small" ELSE "Large")
     /\ last.op = "from_char"
          => /\ v.tag = "Small"
             /\ StrLen(v, heap) = LenUtf8(last.arg)

\* from() of a 15-byte text has just given a heap-backed string, next to
\* an inline one that from() made of a 14-byte text.
C11_Witness ==
  /\ last.op = "from"
  /\ Len(StrBytes(Texts[last.arg])) = LIMIT + 1
  /\ vals[last.slot].tag = "Large"
  /\ \E a \in Slots :
       /\ made[a].by = "from"
       /\ vals[a].tag = "Small"
       /\ vals[a].len = LIMIT

\* The variables whose string is backed by buffer b.
Owners(b) == {s \in Slots : vals[s].tag = "Large" /\ vals[s].vec = b}

\* C12: reference-count safety.  After every call the reference count of
\* each buffer is the number of live strings backed by it, so a buffer
\* that a live string uses is allocated, and a buffer that is not allocated
\* holds nothing; a buffer is deallocated only by the call that takes its
\* count from 1 to 0, which is a drop made by its only owner.
C12_RefCountSafety ==
  [][\A b \in BufIds :
       /\ heap'[b].rc = Cardinality({s \in Slots : /\ vals'[s].tag = "Large"
                                                   /\ vals'[s].vec = b})
       /\ heap'[b].rc = 0 => heap'[b] = FreeBuf
       /\ (heap[b].rc > 0 /\ heap'[b].rc = 0)
            => /\ heap[b].rc = 1
               /\ last'.op = "drop"
               /\ Owners(b) = {last'.slot}]_vars

\* A string and its clone shared a 15-byte buffer; one of them has just
\* been dropped and the buffer lives on with one reference.
C12_Witness ==
  /\ last.op = "drop"
  /\ \E a \in Slots :
       /\ made[a].by = "clone"
       /\ vals[a].tag = "Large"
       /\ heap[vals[a].vec].rc = 1
       /\ Len(heap[vals[a].vec].data) = LIMIT + 1
       /\ Owners(vals[a].vec) = {a}

\* C14: a shrinking write respects exclusivity.  When pop() or clear() is
\* called on a heap-backed string whose buffer has more than one owner and
\* the string gets shorter, the string ends up on a buffer of its own (or
\* on none) that holds exactly the retained prefix, while the buffer it
\* shared keeps its bytes, its length and its capacity and loses exactly
\* one reference.  When the string does not get shorter (it was empty:
\* truncate to a length >= len()), nothing changes at all.
C14_ShrinkRespectsSharing ==
  [][\A s \in Slots :
       (/\ last'.op \in {"pop", "clear"}
        /\ last'.slot = s
        /\ vals[s].tag = "Large")
         => LET b == vals[s].vec
                nb == vals'[s].vec
                old == StrLen(vals[s], heap)
                new == StrLen(vals'[s], heap')
            IN IF new >= old
                 THEN vals' = vals /\ heap' = heap
               ELSE (heap[b].rc > 1)
                      => /\ heap'[b].data = heap[b].data
                         /\ heap'[b].cap = heap[b].cap
                         /\ heap'[b].rc = heap[b].rc - 1
                         /\ nb # b
                         /\ nb # 0 => heap'[nb].rc = 1 /\ heap[nb].rc = 0
                         /\ AsStr(vals'[s], heap')
                              = SubSeq(heap[b].data, 1, new)]_vars

\* b is a heap-backed clone of a and has just been cleared: a is the only
\* owner left of the buffer, which still holds its 15 bytes, and b is
\* empty on something else.
C14_Witness ==
  \E a \in Slots, b \in Slots :
    /\ last.op = "clear"
    /\ last.slot = b
    /\ made[b].by = "clone"
    /\ made[b].of = a
    /\ vals[a].tag = "Large"
    /\ vals[b].tag = "Large"
    /\ vals[b].vec # vals[a].vec
    /\ heap[vals[a].vec].rc = 1
    /\ Len(heap[vals[a].vec].data) = LIMIT + 1
    /\ StrLen(vals[b], heap) = 0

\* C15: clone().  The clone has the length and the content of its source
\* and the source is as it was.  An inline source is copied by value and
\* the heap is untouched; for a heap-backed source no buffer is allocated
\* and no byte is copied: source and clone name the same buffer, whose
\* count goes up by one and whose bytes and capacity stay, and no other
\* buffer changes.
C15_CloneShares ==
  [][last'.op = "clone"
       => LET s == last'.src
              d == last'.slot
          IN /\ vals'[s] = vals[s]
             /\ vals'[d] = vals[s]
             /\ StrLen(vals'[d], heap') = StrLen(vals[s], heap)
             /\ AsStr(vals'[d], heap') = AsStr(vals[s], heap)
             /\ AsStr(vals'[s], heap') = AsStr(vals[s], heap)
             /\ \A b \in BufIds :
                  IF vals[s].tag = "Large" /\ vals[s].vec = b
                    THEN heap'[b] = [heap[b] EXCEPT !.rc = @ + 1]
                  ELSE heap'[b] = heap[b]]_vars

\* A 15-byte heap-backed string has just been cloned: the two variables
\* name one buffer, whose count is 2.
C15_Witness ==
  /\ last.op = "clone"
  /\ vals[last.src].tag = "Large"
  /\ vals[last.slot].vec = vals[last.src].vec
  /\ heap[vals[last.src].vec].rc = 2
  /\ Len(heap[vals[last.src].vec].data) = LIMIT + 1

\* What to_lowercase (up = FALSE) or to_uppercase (up = TRUE) gives
\* for the value v, as bytes.
CaseMapped(v, h, up) ==
  LET r == IF up THEN ToUppercase(v, h) ELSE ToLowercase(v, h)
  IN AsStr(r.v, r.h)

\* C16: case mapping is idempotent.  Lowercasing what to_lowercase has
\* returned gives the same content again, and uppercasing what
\* to_uppercase has returned gives the same content again; this covers
\* sharp s, which uppercases to two characters, and the capital sigma,
\* whose lowercase form depends on its position.
C16_CaseMappingIdempotent ==
  /\ last.op = "to_lowercase"
       => CaseMapped(vals[last.slot], heap, FALSE)
            = AsStr(vals[last.slot], heap)
  /\ last.op = "to_uppercase"
       => CaseMapped(vals[last.slot], heap, TRUE)
            = AsStr(vals[last.slot], heap)

\* to_lowercase has just been called on a string that holds a sharp s and
\* ends in a capital sigma, and the result ends in the final sigma.
C16_Witness ==
  /\ last.op = "to_lowercase"
  /\ \E i \in 1..Len(text[last.src]) : text[last.src][i] = 223
  /\ \E i \in 1..Len(text[last.src]) : text[last.src][i] = 931
  /\ Chars(AsStr(vals[last.slot], heap))[Len(text[last.slot])] = 962

\* C17: push(c) is push_str of the encoding of c.  Every push(c), on an
\* inline string with room, on one that is exactly full, on one where a
\* multi-byte character does not fit, or on a heap-backed one, leaves the
\* string with the representation, the length and the bytes that
\* push_str(c.encode_utf8()) gives from the same state.  An ASCII push
\* onto an inline string of LIMIT bytes gives a heap-backed string of
\* LIMIT + 1 bytes.
C17_PushIsPushStr ==
  [][last'.op = "push"
       => LET s == last'.slot
              c == last'.arg
              q == PushStr(vals[s], heap, EncodeUtf8(c))
          IN /\ vals'[s].tag = q.v.tag
             /\ StrLen(vals'[s], heap') = StrLen(q.v, q.h)
             /\ AsStr(vals'[s], heap') = AsStr(q.v, q.h)
             /\ (/\ vals[s].tag = "Small"
                 /\ vals[s].len = LIMIT
                 /\ LenUtf8(c) = 1)
                  => /\ vals'[s].tag = "Large"
                     /\ AsStr(vals'[s], heap')
                          = AsStr(vals[s], heap) \o <<c>>]_vars

\* A four-byte character has just been pushed onto an inline string that
\* had no room for it: the string is heap-backed and ends in its encoding.
C17_Witness ==
  /\ last.op = "push" /\ last.arg = 127793
  /\ made[last.slot].by = "from"
  /\ made[last.slot].appended
  /\ vals[last.slot].tag = "Large"
  /\ StrLen(vals[last.slot], heap) = LIMIT + 4
  /\ LastChar(AsStr(vals[last.slot], heap)) = 127793

\* C18: the ASCII fast path of to_lowercase / to_uppercase agrees with the
\* general path.  When either has been called on an all-ASCII string, the
\* result is the per-character mapping of the source's bytes, and it is
\* what the call gives for an inline string with those bytes (fast path)
\* and for a heap-backed one (general path); from an inline source the
\* result is inline, as long as the source, and only buf[..len] is
\* case-mapped.  Whatever the content, every live string with the content
\* of the source gives the same result, and the call leaves its source
\* and every allocated buffer as they were.
C18_FastPathAgrees ==
  last.op \in {"to_lowercase", "to_uppercase"}
    => LET src == vals[last.src]
           res == vals[last.slot]
           up == last.op = "to_uppercase"
           str == AsStr(src, heap)
           mapped == AsStr(res, heap)
           hp == VecFromSlice(heap, str)
           again == IF up THEN ToUppercase(src, heap)
                    ELSE ToLowercase(src, heap)
       IN /\ IsAscii(str)
            => /\ mapped = StrBytes(MapChars(Chars(str), up))
               /\ CaseMapped(Large(hp.vec), hp.h, up) = mapped
               /\ Len(str) <= LIMIT
                    => CaseMapped(FromStr(heap, str).v, heap, up) = mapped
               /\ src.tag = "Small"
                    => /\ res.tag = "Small"
                       /\ res.len = src.len
                       /\ \A i \in (src.len + 1)..LIMIT :
                            res.buf[i] = src.buf[i]
          /\ \A t \in Live :
               AsStr(vals[t], heap) = str
                 => CaseMapped(vals[t], heap, up) = mapped
          /\ str = StrBytes(text[last.src])
          /\ \A b \in BufIds : heap[b].rc > 0 => again.h[b] = heap[b]

\* to_lowercase has just been called on a heap-backed all-ASCII string of
\* LIMIT bytes (general path) and has given an inline string, with the
\* bytes the fast path gives for an inline string of that content.
C18_Witness ==
  /\ last.op = "to_lowercase"
  /\ vals[last.src].tag = "Large"
  /\ StrLen(vals[last.src], heap) = LIMIT
  /\ IsAscii(AsStr(vals[last.src], heap))
  /\ vals[last.slot].tag = "Small"
  /\ AsStr(vals[last.slot], heap)
       = CaseMapped(FromStr(heap, AsStr(vals[last.src], heap)).v, heap, FALSE)
  /\ AsStr(vals[last.slot], heap) # AsStr(vals[last.src], heap)

\* Repeat counts around the point where len * n no longer fits a usize:
\* the largest count that fits, the smallest that does not, and the
\* largest count there is.
OverflowCounts(len) ==
  {UsizeMax} \cup (IF len = 0 THEN {}
                   ELSE {UsizeMax \div len, (UsizeMax \div len) + 1})

\* C19: the representation repeat chooses.  For n >= 1, s.repeat(n) is
\* inline exactly when s is inline and len(s) * n <= LIMIT, and heap-backed
\* otherwise, so from a heap-backed s it is heap-backed however short.
\* The product is saturated at the largest usize: for every string a call
\* has made or changed, and for counts whose product does not fit a usize, the inline branch is still taken only when the
\* true product is at most LIMIT, and the capacity asked of the heap is
\* the true product or, beyond the largest usize, the largest usize.
C19_RepeatRepresentation ==
  /\ (last.op = "repeat" /\ last.arg >= 1)
       => LET s == last.src
              fits == /\ vals[s].tag = "Small"
                      /\ StrLen(vals[s], heap) * last.arg <= LIMIT
          IN vals[last.slot].tag = (IF fits THEN "Small" ELSE "Large")
  /\ \A s \in Live \cap {last.slot} :
       LET len == StrLen(vals[s], heap)
       IN \A n \in OverflowCounts(len) \cup (RepeatCounts \ {0}) :
            /\ RepeatFitsInline(vals[s], n)
                 <=> (vals[s].tag = "Small" /\ len * n <= LIMIT)
            /\ RepeatCapacity(vals[s], heap, n)
                 = (IF len * n <= UsizeMax THEN len * n ELSE UsizeMax)

\* repeat(2) has just been called on a heap-backed string of one byte and
\* has given a heap-backed string of two bytes, for which the smallest
\* count whose product overflows would wrap to a product of at most LIMIT.
C19_Witness ==
  /\ last.op = "repeat" /\ last.arg = 2
  /\ vals[last.src].tag = "Large"
  /\ StrLen(vals[last.src], heap) = 1
  /\ vals[last.slot].tag = "Large"
  /\ StrLen(vals[last.slot], heap) = 2
  /\ \E n \in OverflowCounts(2) :
       /\ 2 * n > UsizeMax
       /\ WrappingMul(2, n) <= LIMIT

\* How the value v compares with the strings in the variables of the set
\* among, and how it hashes.
Comparisons(v, h, among) ==
  [hash |-> Hash(v, h),
   eq |-> [t \in among |-> <<Eq(v, vals[t], h), Eq(vals[t], v, h)>>],
   cmp |-> [t \in among |-> <<Cmp(v, vals[t], h), Cmp(vals[t], v, h)>>]]

\* The string a call works on: the one it changes, or the one it reads to
\* make a new one.
Receiver(call) ==
  IF call.op \in InPlaceOps THEN call.slot
  ELSE IF call.op \in {"clone", "to_lowercase", "to_uppercase", "repeat"}
    THEN call.src
  ELSE 0

\* The outcome [v, h, ret] of the call on the value v.
ApplyCall(call, v, h) ==
  LET r == IF call.op = "push" THEN Push(v, h, call.arg)
           ELSE IF call.op = "push_str"
             THEN PushStr(v, h, StrBytes(Texts[call.arg]))
           ELSE IF call.op = "clear" THEN Clear(v, h)
           ELSE IF call.op = "clone" THEN Clone(v, h)
           ELSE IF call.op = "to_lowercase" THEN ToLowercase(v, h)
           ELSE IF call.op = "to_uppercase" THEN ToUppercase(v, h)
           ELSE Repeat(v, h, call.arg)
  IN IF call.op = "pop" THEN Pop(v, h)
     ELSE [v |-> r.v, h |-> r.h, ret |-> NoChar]

\* C20: stale inline bytes are never observable.  An inline string whose
\* buffer holds left-over bytes beyond its length and the inline string
\* that from() makes of the same content, with zeros beyond its length,
\* cannot be told apart: they have the same bytes and length, they
\* compare and hash alike against every live string, and every push,
\* push_str (promotion included), pop, clear, clone, to_lowercase,
\* to_uppercase and repeat called on the first returns and leaves what it
\* would for the second.
C20_StaleBytesInvisible ==
  [][\A s \in Slots :
       (/\ vals[s].tag = "Small"
        /\ \E i \in (vals[s].len + 1)..LIMIT : vals[s].buf[i] # 0)
         => LET fresh == FromStr(heap, AsStr(vals[s], heap)).v
                out == ApplyCall(last', fresh, heap)
            IN /\ fresh # vals[s]
               /\ AsStr(fresh, heap) = AsStr(vals[s], heap)
               /\ StrLen(fresh, heap) = StrLen(vals[s], heap)
               /\ Comparisons(vals[s], heap, Live)
                    = Comparisons(fresh, heap, Live)
               /\ Receiver(last') = s
                    => /\ vals'[last'.slot].tag = out.v.tag
                       /\ StrLen(vals'[last'.slot], heap')
                            = StrLen(out.v, out.h)
                       /\ AsStr(vals'[last'.slot], heap')
                            = AsStr(out.v, out.h)
                       /\ last'.ret = out.ret]_vars

\* clear has emptied an inline string of LIMIT bytes and a push has
\* written over the first of them: the string is one byte long and the
\* bytes after it are still those of the old text.
C20_Witness ==
  /\ last.op = "push"
  /\ vals[last.slot].tag = "Small"
  /\ vals[last.slot].len = 1
  /\ \A i \in 2..LIMIT : vals[last.slot].buf[i] = StrBytes(Texts[6])[i]

\* The references to buffer b: the strings backed by it and the private
\* copies not yet put in place of a shared buffer.
Refs(b) ==
  Cardinality(Owners(b))
    + Cardinality({s \in Slots : threads[s].pc = "release"
                                   /\ threads[s].tmp = b})

\* C13: no data race across clones.  With the clones of one heap-backed
\* string mutated, cloned and dropped by different threads whose steps
\* interleave in every way: the count of a buffer is the number of
\* references to it; a thread that is about to write holds a buffer with
\* count 1 that no other thread refers to, and every write there was hit a
\* buffer whose count was 1; a thread in the middle of a call finds in
\* the buffer it shares the bytes its string had when the call began; and
\* between calls each thread's string holds what its own calls alone make
\* of the original text.
C13_NoRaceAcrossClones ==
  /\ \A b \in BufIds : heap[b].rc = Refs(b)
  /\ \A s \in Slots :
       threads[s].pc = "write"
         => /\ heap[vals[s].vec].rc = 1
            /\ Refs(vals[s].vec) = 1
            /\ Owners(vals[s].vec) = {s}
  /\ last.op = "write" => last.arg = 1
  /\ \A s \in Live :
       /\ threads[s].pc \in {"idle", "check", "copy", "release"}
            => AsStr(vals[s], heap) = StrBytes(text[s])
       /\ threads[s].pc = "release"
            => VecData(heap, threads[s].tmp)
                 = SubSeq(StrBytes(text[s]), 1, threads[s].keep)
       /\ threads[s].pc = "write"
            => SubSeq(AsStr(vals[s], heap), 1, threads[s].keep)
                 = SubSeq(StrBytes(text[s]), 1, threads[s].keep)

\* Two threads are in the middle of a call on clones of one string: one
\* has made its private copy and still holds the shared buffer, the other
\* has let go of it and is about to write into its own.
C13_Witness ==
  \E a \in Slots, b \in Slots :
    /\ a # b
    /\ threads[a].pc = "release"
    /\ threads[b].pc = "write"
    /\ heap[vals[a].vec].rc = 1
    /\ Len(heap[vals[a].vec].data) = LIMIT + 1
    /\ vals[b].vec # vals[a].vec

====
